---- MODULE Spec2Model ----
(***************************************************************************)
(* MonteCarloBasedPlayer (W3D5_Tutorial1_Solution_9524e84f.py): the top-K  *)
(* Monte-Carlo action selector.  One player object is modelled together    *)
(* with the collaborators handed to its constructor: the game (legality    *)
(* mask of the position under decision), the network (its prior for that   *)
(* position) and the simulator.  play and getActionProb are the            *)
(* operations.  A call is one step up to the candidate loop (lines 38-61)  *)
(* and then one step per pass of that loop (lines 63-76), the last pass    *)
(* going on through the sort to the return (lines 78-81).                  *)
(*                                                                         *)
(* mc.simulate is stochastic: every single rollout may return any value,   *)
(* in every call.  np.argpartition leaves the order inside the two parts   *)
(* to the implementation: its result is any order meeting its contract,    *)
(* chosen at the first call and the same afterwards.                       *)
(*                                                                         *)
(* Numbers: a probability vector is kept exactly, as integer numerators    *)
(* over one common positive denominator (Ps.num[a] / Ps.den); an average   *)
(* is kept as the pair sum / count.  Rounding of floats is not modelled.   *)
(***************************************************************************)
EXTENDS Integers, Sequences, FiniteSets

\* ---------------------------------------------------------------- bounds
\* game.getActionSize(): number of action slots (37 for the 6x6 board).
NumActions == 2
\* args.mc_topk ranges over 1..MaxK in Spec, over -MaxNegK..MaxK in SpecCfg.
MaxK == 3
MaxNegK == 3
\* the predictor's prior weights range over 0..MaxPrior.
MaxPrior == 2
\* one rollout of mc.simulate returns a value in 0..MaxValue.
MaxValue == 1
\* args.numMCsims ranges over 1..MaxSims.
MaxSims == 2

Actions == 0..(NumActions - 1)
\* "no action returned" (None): a value outside the action space.
NoAction == NumActions
\* what one call of mc.simulate may return
Outcomes == 0..MaxValue
\* "no vector returned".
NoVector == <<>>
\* the player has no attribute qsa (__init__ assigns none): a value that
\* differs from every list play builds, the empty one included, being the
\* pair of a mean over no rollouts with no action
NoAttribute == <<<<[num |-> 0, den |-> 0], NoAction>>>>
\* game.getGameEnded(board, 1): 0 while the game runs, else the result.
GameEndedResults == {0 - 1, 0, 1}

VARIABLES
  K,              \* self.K = args.mc_topk
  game_valids,    \* game.getValidMoves(board, 1) for the position under decision
  nnet_Ps,        \* first component of nnet.predict(board) for that position
  numMCsims,      \* self.args.numMCsims
  argpart,        \* np.argpartition(Ps, -m)[-m:] for this position (<<>>: not yet called)
  qsa,            \* self.qsa (NoAttribute until the first play reaches line 38)
  op,             \* the operation called last (it is running while next > 0)
  ended,          \* game.getGameEnded(board, 1) of the board given to the last operation
  Ps,             \* play's local Ps after renormalisation
  top_k_actions,  \* play's local top_k_actions
  next,           \* position in top_k_actions of the candidate scored next (0: no call is running)
  best_action,    \* return value of the play run by the last operation (NoAction: none)
  action_probs,   \* return value of the last getActionProb (NoVector: none yet)
  logged,         \* log.error was emitted by the last operation
  raised,         \* the last operation ended with an exception
  invoked         \* collaborator methods invoked by the last operation

vars == <<K, numMCsims, game_valids, nnet_Ps, argpart, qsa, op, ended, Ps,
          top_k_actions, next, best_action, action_probs, logged,
          raised, invoked>>

env == <<K, numMCsims, game_valids, nnet_Ps>>

\* ------------------------------------------------------- numeric helpers
Min(a, b) == IF a < b THEN a ELSE b
Max(a, b) == IF a > b THEN a ELSE b

RECURSIVE SumUpTo(_, _)
SumUpTo(v, n) == IF n < 0 THEN 0 ELSE v[n] + SumUpTo(v, n - 1)
\* np.sum over a vector indexed by Actions
NpSum(v) == SumUpTo(v, NumActions - 1)

RECURSIVE SeqSum(_, _)
SeqSum(s, n) == IF n = 0 THEN 0 ELSE s[n] + SeqSum(s, n - 1)
\* np.mean(values): sum / count, kept as a fraction
NpMean(vs) == [num |-> SeqSum(vs, Len(vs)), den |-> Len(vs)]
\* a < b for two fractions with positive denominators
FracLess(a, b) == a.num * b.den < b.num * a.den

Zeros == [a \in Actions |-> 0]

\* ------------------------------------------------------------ play, 38-61
\* line 38: self.qsa = []
ResetQsa(old) == <<>>

\* (variant: the mask is not applied)
MaskNothing(P, valids) == P
\* line 42: Ps = Ps * valids
Mask(P, valids) == [a \in Actions |-> P[a] * valids[a]]

\* line 46: Ps /= sum_Ps_s
Renormalize(P, s) == [num |-> P, den |-> s]

\* (variant: uniform over every action slot, legal or not)
FallbackAll(P, valids) ==
  LET Q == [a \in Actions |-> P[a] + 1]
  IN  [num |-> Q, den |-> NpSum(Q)]
\* lines 53-54: Ps = Ps + valids ; Ps /= np.sum(Ps).  With no legal action
\* the sum is 0 and the division gives 0/0 in every slot (den = 0): numpy
\* warns and stores NaN
Fallback(P, valids) ==
  LET Q == [a \in Actions |-> P[a] + valids[a]]
  IN  [num |-> Q, den |-> NpSum(Q)]

\* line 45: the branch taken (True: renormalise, False: log and fall back)
MassPositive(P) == NpSum(P) > 0

\* lines 42-54: the probability vector play works with
NormalizedPs(P0, valids) ==
  LET P == Mask(P0, valids)
  IN  IF MassPositive(P) THEN Renormalize(P, NpSum(P)) ELSE Fallback(P, valids)

\* an entry 0/0 is NaN
IsNaN(P, a) == P.den = 0
\* line 56: num_valid_actions = np.shape(np.nonzero(Ps))[1]; NaN is non-zero
NumValidActions(P) ==
  Cardinality({a \in Actions : IsNaN(P, a) \/ P.num[a] # 0})

\* lines 58-61: how many of the highest entries are asked for
NumRequested(n, k) == IF n < k THEN n ELSE k

\* np.argpartition(a, kth) accepts kth in -len(a) .. len(a)-1, else ValueError
KthInBounds(kth) == (0 - NumActions) <= kth /\ kth <= NumActions - 1
\* a negative kth counts from the end
KthIndex(kth) == IF kth < 0 THEN kth + NumActions ELSE kth

Perms == {p \in [1..NumActions -> Actions] : \A i, j \in 1..NumActions : p[i] = p[j] => i = j}

\* np.argpartition(P, kth): every index order whose kth entry is in its sorted
\* place, with nothing larger before it and nothing smaller after it.  The
\* order inside the two parts is left to the implementation.  (The entries
\* share one denominator, so the numerators order them; NaN entries occur
\* only all together and count as equal, so every order is a partition.)
ArgPartitions(P, kth) ==
  LET k == KthIndex(kth) + 1
  IN  {p \in Perms : \A i \in 1..NumActions :
         /\ i < k => P.num[p[i]] <= P.num[p[k]]
         /\ i > k => P.num[p[i]] >= P.num[p[k]]}

\* s[start:] of Python
PyTail(s, start) ==
  LET lo == IF start < 0 THEN Max(Len(s) + start, 0) ELSE Min(start, Len(s))
  IN  SubSeq(s, lo + 1, Len(s))

\* ------------------------------------------------------------ play, 63-81
\* lines 67-72: values holds what numMCsims calls of mc.simulate returned
RolloutValues == [1..numMCsims -> Outcomes]

\* lines 75-76: (avg_value, action)
ScoredAction(vals, a) == <<NpMean(vals), a>>

\* insert e behind every entry whose key is not larger (keeps equal keys in order)
RECURSIVE InsertByValue(_, _)
InsertByValue(sorted, e) ==
  IF sorted = <<>> THEN <<e>>
  ELSE IF FracLess(e[1], sorted[1][1]) THEN <<e>> \o sorted
       ELSE <<sorted[1]>> \o InsertByValue(Tail(sorted), e)

\* line 78: self.qsa.sort(key=lambda a: a[0])  (ascending, stable)
RECURSIVE SortByValue(_)
SortByValue(q) ==
  IF q = <<>> THEN <<>>
  ELSE InsertByValue(SortByValue(SubSeq(q, 1, Len(q) - 1)), q[Len(q)])

\* (variant: the list is not reversed)
KeepOrder(q) == q
\* line 79: self.qsa.reverse()
Reverse(q) == [i \in 1..Len(q) |-> q[Len(q) + 1 - i]]

\* (variant: descending order with ties kept in insertion order, as
\* sort(reverse=True) would give)
RankedFirstTie(q) == Reverse(SortByValue(Reverse(q)))
\* lines 78-79
Ranked(q) == Reverse(SortByValue(q))

\* line 80: best_action = self.qsa[0][1]
BestAction(q) == q[1][2]

PlayCalls == {"stringRepresentation", "predict", "getValidMoves"}
RolloutCalls == {"getNextState", "getCanonicalForm", "simulate"}
ProbCalls == {"getGameEnded", "getActionSize"}

\* play(canonicalBoard), lines 38-61, when lines 58-61 give top
PlayStart(old_qsa, top) ==
  LET P == NormalizedPs(nnet_Ps, game_valids)
      m == NumRequested(NumValidActions(P), K)
  IN  [Ps |-> P, top |-> top, qsa |-> ResetQsa(old_qsa),
       logged |-> ~MassPositive(Mask(nnet_Ps, game_valids)),
       raised |-> ~KthInBounds(0 - m)]

\* np.argpartition(P, -m)[-m:]: the slices the call may give, any that meets
\* the contract of argpartition the first time, the same one ever after
\* (argpartition is a function of its arguments, which do not change)
TopChoices ==
  LET P == NormalizedPs(nnet_Ps, game_valids)
      m == NumRequested(NumValidActions(P), K)
  IN  IF ~KthInBounds(0 - m) THEN {<<>>}
      ELSE IF argpart # <<>> THEN {argpart}
      ELSE {PyTail(p, 0 - m) : p \in ArgPartitions(P, 0 - m)}

Range(s) == {s[i] : i \in 1..Len(s)}

\* -------------------------------------------------------- getActionProb
\* (variant: the finished-game test never succeeds)
IsEndedNever(e) == FALSE
\* line 97: self.game.getGameEnded(canonicalBoard, 1) != 0
IsEnded(e) == e # 0

\* (variant: the 1 is never written)
OneHotMissing(a) == Zeros
\* lines 101-103: zeros with a 1 at best_action
OneHot(a) == [x \in Actions |-> IF x = a THEN 1 ELSE 0]

\* np.argmax: the first index holding the largest entry (line 121, n1p)
NpArgmax(v) ==
  CHOOSE a \in Actions :
    /\ \A b \in Actions : v[b] <= v[a]
    /\ \A b \in Actions : b < a => v[b] < v[a]

\* -------------------------------------------------------------- actions
\* MonteCarloBasedPlayer(game, nnet, args), with the mask and the prior the
\* collaborators give for the position under decision: any mask, the one
\* that marks no action included
InitEnv(Ks) ==
  /\ K \in Ks
  /\ numMCsims \in 1..MaxSims
  /\ game_valids \in [Actions -> {0, 1}]
  /\ nnet_Ps \in [Actions -> 0..MaxPrior]
  /\ argpart = <<>>
  /\ qsa = NoAttribute
  /\ op = "init"
  /\ ended = 0
  /\ Ps = NoVector
  /\ top_k_actions = <<>>
  /\ next = 0
  /\ best_action = NoAction
  /\ action_probs = NoVector
  /\ logged = FALSE
  /\ raised = FALSE
  /\ invoked = {}

\* a player configured as intended: mc_topk >= 1
Init == InitEnv(1..MaxK)

\* a player with any configuration, mc_topk <= 0 included
InitCfg == InitEnv((0 - MaxNegK)..MaxK)

\* lines 38-61 of play, entered by the operation called: up to the loop, or
\* to the ValueError of np.argpartition
EnterPlay(called, calls) ==
  \E top \in TopChoices : \E r \in {PlayStart(qsa, top)} :
    /\ op' = called
    /\ argpart' = top
    /\ qsa' = r.qsa
    /\ Ps' = r.Ps
    /\ top_k_actions' = r.top
    /\ next' = IF r.raised THEN 0 ELSE 1
    /\ best_action' = NoAction
    /\ action_probs' = NoVector
    /\ logged' = r.logged
    /\ raised' = r.raised
    /\ invoked' = calls \cup PlayCalls
    /\ UNCHANGED env

\* mc1.play(board), board being the position under decision
Play ==
  /\ next = 0
  /\ ended' = 0
  /\ EnterPlay("play", {})

\* mc1.getActionProb(board): board is the position under decision (e = 0) or
\* a finished game (e # 0)
GetActionProb ==
  /\ next = 0
  /\ \E e \in GameEndedResults :
       /\ ended' = e
       /\ IF IsEnded(e)
          THEN /\ op' = "getActionProb"
               /\ action_probs' = Zeros
               /\ invoked' = ProbCalls
               /\ Ps' = NoVector
               /\ top_k_actions' = <<>>
               /\ best_action' = NoAction
               /\ logged' = FALSE
               /\ raised' = FALSE
               /\ UNCHANGED <<env, argpart, qsa, next>>
          ELSE EnterPlay("getActionProb", ProbCalls)

\* one pass of the loop of lines 63-76 for the candidate at position next;
\* after the last candidate also lines 78-81, and lines 103-105 when the
\* call is getActionProb
ScoreCandidate ==
  /\ next > 0
  /\ \E vals \in RolloutValues :
       \E q \in {Append(qsa, ScoredAction(vals, top_k_actions[next]))} :
         /\ invoked' = invoked \cup RolloutCalls
         /\ IF next < Len(top_k_actions)
            THEN /\ qsa' = q
                 /\ next' = next + 1
                 /\ UNCHANGED <<best_action, action_probs>>
            ELSE /\ qsa' = Ranked(q)
                 /\ next' = 0
                 /\ best_action' = BestAction(Ranked(q))
                 /\ action_probs' = IF op = "getActionProb"
                                    THEN OneHot(BestAction(Ranked(q)))
                                    ELSE action_probs
  /\ UNCHANGED <<env, argpart, op, ended, Ps, top_k_actions, logged, raised>>

Next == Play \/ GetActionProb \/ ScoreCandidate

Spec == Init /\ [][Next]_vars

SpecCfg == InitCfg /\ [][Next]_vars

\* ================================================================ claims
Legal == {a \in Actions : game_valids[a] = 1}
Candidates == Range(top_k_actions)
\* the last operation ran play to its return statement
Played == best_action # NoAction
\* the last operation entered play
PlayRan == "predict" \in invoked
\* average rollout value that self.qsa holds for action a
QsaAvg(a) == (CHOOSE e \in Range(qsa) : e[2] = a)[1]
\* average rollout value of the i-th candidate, in candidate order
CandAvg(i) == QsaAvg(top_k_actions[i])
\* positions, in candidate order, of the candidates with maximal average
MaxPositions ==
  {i \in 1..Len(top_k_actions) :
     \A j \in 1..Len(top_k_actions) : ~FracLess(CandAvg(i), CandAvg(j))}
FirstOf(S) == CHOOSE i \in S : \A j \in S : i <= j
LastOf(S) == CHOOSE i \in S : \A j \in S : j <= i
\* the average is not a whole number: the rollouts of that candidate differed
Mixed(avg) == avg.num % avg.den # 0

\* C1: with at least one legal action and any non-negative prior (zero on
\* some or all legal actions included), play returns, and the action it
\* returns is one the mask marks legal.
C1_ReturnsLegalAction ==
  /\ (op = "play" /\ next = 0) => Played
  /\ (Played /\ Legal # {}) => best_action \in Legal
\* the prior is zero on every legal action, and an illegal action exists
C1_Witness ==
  Played /\ logged /\ Legal # {} /\ Legal # Actions /\ op = "play"

\* C2 (as stated): when fewer than K actions are legal, the candidates are
\* exactly the legal actions, whatever the prior.
C2_CandidatesAreAllLegal ==
  (Played /\ Cardinality(Legal) < K) => Candidates = Legal

\* C3 (as stated): with K <= 0 play fails fast: it never goes on to score
\* candidates or to return an action.
C3_NonPositiveKFailsFast ==
  (K <= 0 /\ PlayRan) =>
     (raised /\ ~Played /\ qsa = <<>> /\ "simulate" \notin invoked)

\* C4 (as stated): among candidates tied at the maximal average, play
\* returns the one first in candidate order.
C4_FirstAmongTies ==
  Played => best_action = top_k_actions[FirstOf(MaxPositions)]
\* C4 (amended): when two or more candidates are tied at the maximal
\* average, play returns the one LAST in candidate order (stable ascending
\* sort, then reverse).
C4_LastAmongTies ==
  (Played /\ Cardinality(MaxPositions) >= 2) =>
     best_action = top_k_actions[LastOf(MaxPositions)]
\* two candidates share the maximal average, 1/2, each from differing rollouts
C4_Witness ==
  /\ Played /\ Cardinality(MaxPositions) >= 2
  /\ Mixed(qsa[1][1]) /\ FirstOf(MaxPositions) # LastOf(MaxPositions)

\* C5 (as stated): for every legality mask, every prior and every K >= 1
\* the number of candidates that receive rollouts is at most K and at most
\* the number of legal actions.
C5_AtMostMinKLegal ==
  PlayRan => /\ Len(top_k_actions) <= Min(K, Cardinality(Legal))
             /\ Len(qsa) <= Min(K, Cardinality(Legal))

\* C6: when the masked prior is all-zero, the fallback distribution is 1/n
\* on each of the n legal actions, 0 on every illegal one, and sums to 1.
C6_FallbackUniformOverLegal ==
  (logged /\ Legal # {}) =>
            /\ Ps.den > 0
            /\ \A a \in Actions :
                 Ps.num[a] * Cardinality(Legal) = Ps.den * game_valids[a]
            /\ NpSum(Ps.num) = Ps.den
\* the fallback ran although the prior had weight, all of it on an illegal
\* action
C6_Witness ==
  logged /\ Legal # {} /\ Legal # Actions /\ \E a \in Actions : nnet_Ps[a] > 0

\* C7: on a finished game getActionProb returns all zeros of length
\* getActionSize() and invokes neither the predictor, the legality mask,
\* the state-advance function nor the simulator.
C7_TerminalShortCircuit ==
  (op = "getActionProb" /\ ended # 0) =>
     /\ DOMAIN action_probs = Actions
     /\ \A a \in Actions : action_probs[a] = 0
     /\ invoked \cap (PlayCalls \cup RolloutCalls) = {}
     /\ ~Played /\ next = 0
\* a finished game is asked about after an earlier decision was computed
C7_Witness ==
  op = "getActionProb" /\ ended = 1 /\ qsa # NoAttribute /\ qsa # <<>>

\* C8: play returns a candidate whose average rollout value is at least
\* that of every other candidate, and which candidate that is depends on
\* nothing but the candidate order and the averages; a stub simulator,
\* whose rollouts of one candidate all agree, makes each average the
\* stub's value, so the candidate of highest value is returned, the same
\* one every time.
C8_StubMaxAndRepeatable ==
  Played =>
     /\ best_action \in Candidates
     /\ \A c \in Candidates : ~FracLess(QsaAvg(best_action), QsaAvg(c))
     /\ best_action = top_k_actions[LastOf(MaxPositions)]
     /\ top_k_actions = argpart
\* the rollouts of every candidate agreed, as with a stub, and some
\* candidate is strictly worse than the one returned
C8_Witness ==
  /\ op = "play" /\ Played /\ numMCsims >= 2
  /\ \A i \in 1..Len(qsa) : ~Mixed(qsa[i][1])
  /\ \E c \in Candidates : FracLess(QsaAvg(c), QsaAvg(best_action))

\* C9 (as stated): the selector writes no shared mutable state; nothing
\* persists between invocations: self.qsa is never changed.
C9_WritesNoState == [][qsa' = qsa]_vars

\* C10: on a running game getActionProb returns a one-hot vector of length
\* getActionSize() with its 1 at the action play returned, so np.argmax of
\* it is that action.
C10_OneHotAtBestAction ==
  (op = "getActionProb" /\ ended = 0 /\ next = 0) =>
     /\ Played
     /\ DOMAIN action_probs = Actions
     /\ \A a \in Actions : action_probs[a] = (IF a = best_action THEN 1 ELSE 0)
     /\ NpArgmax(action_probs) = best_action
\* the action is not the first slot, where np.argmax of zeros would land
C10_Witness == op = "getActionProb" /\ ended = 0 /\ Played /\ best_action > 0
====
